---- MODULE Spec2Model ----
(***************************************************************************)
(* Model of the real-time session engine of src/src/app.jsx (component     *)
(* App): the WebSocket effect and its message handlers, the capture        *)
(* pipeline (startListening / stopListening), the correction playback and  *)
(* the mistake queue with its background sync.                             *)
(*                                                                         *)
(* A handler is one action: the state setters it calls, the re-render and  *)
(* the effects that the changed dependencies re-run are part of the same   *)
(* step.  Every await and every browser event (socket open / close /       *)
(* error, recorder stop, decode completion, fetch response) is a separate  *)
(* action.                                                                 *)
(***************************************************************************)
EXTENDS Integers, Sequences, FiniteSets, Bags, TLC

\* ---------------------------------------------------------------- bounds
MaxSockets == 3      \* WebSocket objects created in one run
MaxCaptures == 2     \* getUserMedia grants (streams) in one run
MaxMistakes == 2     \* mistake_event messages in one run
MaxInFlight == 2     \* sync requests awaiting their response at once
MaxChunks == 2       \* audio chunks produced by the recorders in one run
MaxPending == 2      \* flushes awaiting blob.arrayBuffer() at once
MaxSamples == 2      \* getUserMedia requests of the correct-sample workflow
MaxUploads == 2      \* initial-recitation uploads issued in one run
MaxRestarts == 2     \* page loads after the first

\* ------------------------------------------------------- program constants
Modes == {"highlight", "beep", "spoken"}
DiffTypes == {"equal", "insertion", "deletion", "replacement_ref", "replacement_trans"}
Statuses == {"pending", "correct", "incorrect"}

\* Inbound verse_identified messages: the text is a sequence of characters.
VerseMsgs ==
  { [sura_name |-> "Al-Fatiha", ayah_text |-> <<"b", " ", "a">>],
    [sura_name |-> "Al-Fatiha", ayah_text |-> <<" ", "b", " ", " ">>] }

\* Inbound diff_update messages: the diff array of DiffEvent entries.
DiffMsgs ==
  { <<[type |-> "equal", index |-> 0], [type |-> "replacement_ref", index |-> 1]>>,
    <<[type |-> "deletion", index |-> 0], [type |-> "insertion", index |-> 1],
      [type |-> "replacement_trans", index |-> 2]>>,
    <<>> }

MistakeIds == 1..MaxMistakes

\* The files the user can pick for the initial-recitation upload: name and
\* MIME type (type and subtype).
Files ==
  { [name |-> "ruku.mp3", type |-> <<"audio", "mpeg">>],
    [name |-> "notes.txt", type |-> <<"text", "plain">>] }

\* recordedAudioFile === null
NoFile == [name |-> "", type |-> <<>>]

VARIABLES
  isListening, currentSura, currentAya, feedbackMode, mistakeQueue,
  currentVerseWords, highlightedWords, statusMessage, isSpokenCorrectionPlaying,
  ws,            \* ws.current: index into sockets, 0 = null
  sockets,       \* every WebSocket created: readyState, the values its handlers
                 \* closed over, and the frames sent on it
  captures,      \* one entry per granted getUserMedia: stream tracks, recorder,
                 \* flush interval, voice-activity loop
  mediaRecorder, \* mediaRecorder.current / audioStream.current: index, 0 = null
  animationFrameId, \* capture whose pending animation frame the ref names
  pendingGrants, \* startListening calls awaiting getUserMedia: for each, the
                 \* isSpokenCorrectionPlaying its closure saw
  audioChunks,   \* audioChunks.current: sequence of chunk ids
  nextChunk,     \* chunks produced so far
  pendingFlush,  \* flushes awaiting blob.arrayBuffer(): the blobs
  spokenCorrectionSource, \* index into sources, 0 = null
  sources,       \* every AudioBufferSourceNode created
  decoding,      \* playSpokenCorrection calls awaiting decodeAudioData
  clipsRequested,\* playSpokenCorrection calls so far
  beeps,         \* playBeep calls so far
  clock,         \* Date.now(), a logical clock
  syncRequests,  \* sync requests in flight: a bag of payloads (responses come
                 \* in any order)
  server,        \* verification status last delivered per id ("none" if never)
  showCorrectionModal, isRecordingCorrectSample,
  correctSampleRecorder, \* correctSampleRecorder.current: index into samples,
                 \* 0 = null
  samples,       \* one entry per stream granted to the correct-sample workflow:
                 \* its tracks, its recorder, and whether Cancel ended it
  samplePending, \* startRecordingCorrectSample calls awaiting getUserMedia
  sampleUploads, \* uploadCorrectSample calls awaiting fetch: the sample of each
  trainingUploads, \* the TrainingUploadRecords stored: the sample of each, 0
                 \* for the record of an initial-recitation upload
  recordedAudioFile, \* the file selected for the initial-recitation upload
  initialUploads,\* uploadInitialTrainingAudio calls awaiting fetch: the file of
                 \* each
  uploadsIssued, \* uploadInitialTrainingAudio calls that issued a request
  storedMistakes,\* localStorage[LS_KEYS.mistakes]: the JSON text
  pendingLoad,   \* the setMistakeQueue of the load effect that the render
                 \* after the mount is to apply, if any
  restarts,      \* page loads after the first
  latestDiff,    \* history: the diff of the last diff_update since the last
                 \* verse_identified (or stopListening), if there was one
  lastOp         \* the handler that ran last, with its inputs

vars == <<isListening, currentSura, currentAya, feedbackMode, mistakeQueue,
          currentVerseWords, highlightedWords, statusMessage,
          isSpokenCorrectionPlaying, ws, sockets, captures, mediaRecorder,
          animationFrameId, pendingGrants, audioChunks, nextChunk, pendingFlush,
          spokenCorrectionSource, sources, decoding, clipsRequested, beeps,
          clock, syncRequests, server, showCorrectionModal,
          isRecordingCorrectSample, correctSampleRecorder, samples,
          samplePending, sampleUploads, trainingUploads, recordedAudioFile,
          initialUploads, uploadsIssued, storedMistakes, pendingLoad, restarts,
          latestDiff, lastOp>>

sessionVars == <<currentSura, currentAya, currentVerseWords, highlightedWords,
                 latestDiff>>
captureVars == <<captures, mediaRecorder, animationFrameId, pendingGrants,
                 audioChunks, nextChunk, pendingFlush>>
playbackVars == <<spokenCorrectionSource, sources, decoding, clipsRequested,
                  isSpokenCorrectionPlaying>>
queueVars == <<mistakeQueue, clock, syncRequests, server>>
uploadVars == <<recordedAudioFile, initialUploads, uploadsIssued>>
storeVars == <<storedMistakes, pendingLoad, restarts>>
sampleVars == <<showCorrectionModal, isRecordingCorrectSample,
                correctSampleRecorder, samples, samplePending, sampleUploads,
                trainingUploads>>

\* ---------------------------------------------------------------- helpers
Range(s) == { s[i] : i \in 1..Len(s) }

RECURSIVE IndicesOfTypes(_, _)
\* diff.filter(d => d.type is one of types).map(d => d.index)
IndicesOfTypes(diff, types) ==
  IF diff = <<>> THEN <<>>
  ELSE (IF Head(diff).type \in types THEN <<Head(diff).index>> ELSE <<>>)
       \o IndicesOfTypes(Tail(diff), types)

RECURSIVE NonEmptyWords(_)
\* words.filter(word => word.length > 0)
NonEmptyWords(words) ==
  IF words = <<>> THEN <<>>
  ELSE (IF Len(Head(words)) > 0 THEN <<Head(words)>> ELSE <<>>)
       \o NonEmptyWords(Tail(words))

RECURSIVE SplitAcc(_, _)
\* String.prototype.split(/\s+/): cuts at every run of whitespace; a leading or
\* trailing run yields an empty first or last piece.
SplitAcc(text, cur) ==
  IF text = <<>> THEN <<cur>>
  ELSE IF Head(text) = " "
       THEN IF Len(text) > 1 /\ text[2] = " "
            THEN SplitAcc(Tail(text), cur)
            ELSE <<cur>> \o SplitAcc(Tail(text), <<>>)
       ELSE SplitAcc(Tail(text), Append(cur, Head(text)))

SplitWhitespace(text) == SplitAcc(text, <<>>)

\* message.ayah_text.split(/\s+/).filter(word => word.length > 0)
VerseWords(text) == NonEmptyWords(SplitWhitespace(text))

NewHighlightedWordsAllUnequal(diff) == IndicesOfTypes(diff, DiffTypes \ {"equal"})

\* message.diff.filter(d => deletion or replacement_ref).map(d => d.index)
NewHighlightedWords(diff) == IndicesOfTypes(diff, {"deletion", "replacement_ref"})

\* ----------------------------------------------------------------- sockets
NewSocketWithInitialMode(mode, sura, aya) ==
  [readyState |-> "connecting", feedbackMode |-> "highlight", currentSura |-> sura,
   currentAya |-> aya, out |-> <<>>]

\* new WebSocket(BACKEND_WS_URL) with the handlers of the effect run that made
\* it: they close over that render's feedbackMode, currentSura and currentAya.
NewSocket(mode, sura, aya) ==
  [readyState |-> "connecting", feedbackMode |-> mode, currentSura |-> sura,
   currentAya |-> aya, out |-> <<>>]

\* A socket the client closed or whose close event was delivered.  Its
\* onopen and onmessage never run again and nothing more is sent on it, so the
\* values its handlers closed over and the frames sent on it are dropped.
DeadSocket(state) ==
  [readyState |-> state, feedbackMode |-> "highlight", currentSura |-> "",
   currentAya |-> <<>>, out |-> <<>>]

\* WebSocket.close(): starts the closing handshake; the close event comes
\* later.
CloseSocket(socks, i) ==
  IF i = 0 \/ socks[i].readyState \in {"closing", "closed"} THEN socks
  ELSE [socks EXCEPT ![i] = DeadSocket("closing")]

\* WebSocket.send(): the frame goes out when the socket is open and is
\* discarded when it is closing or closed.
SendOn(socks, i, frame) ==
  IF socks[i].readyState = "open"
  THEN [socks EXCEPT ![i].out = Append(@, frame)]
  ELSE socks

IsOpen(socks, i) == i # 0 /\ socks[i].readyState = "open"

WsEffectDepsWithoutMode(listening, mode, sura, aya) == <<listening, sura, aya>>

\* The dependency array of the WebSocket effect (playBeep and
\* playSpokenCorrection are stable useCallback values).
WsEffectDeps(listening, mode, sura, aya) == <<listening, mode, sura, aya>>

\* One run of the WebSocket effect after a render that changed a dependency:
\* the cleanup the previous run returned (it returned one only when it was
\* listening), then the body.
WsEffect(socks, cur, wasListening, listening, mode, sura, aya) ==
  LET cleaned == IF wasListening THEN CloseSocket(socks, cur) ELSE socks
  IN IF ~listening
     THEN [sockets |-> CloseSocket(cleaned, cur), ws |-> 0]
     ELSE [sockets |-> Append(cleaned, NewSocket(mode, sura, aya)),
           ws |-> Len(cleaned) + 1]

EffectRuns(listening, mode, sura, aya) ==
  WsEffectDeps(listening, mode, sura, aya)
    # WsEffectDeps(isListening, feedbackMode, currentSura, currentAya)

\* The re-render a handler's state setters cause: the new values of the
\* states the WebSocket effect depends on, and the effect when one changed.
\* socks and cur are the sockets and ws.current as the handler left them.
Commit(socks, cur, listening, mode, sura, aya) ==
  /\ isListening' = listening
  /\ feedbackMode' = mode
  /\ currentSura' = sura
  /\ currentAya' = aya
  /\ IF EffectRuns(listening, mode, sura, aya)
     THEN /\ listening => Len(socks) < MaxSockets
          /\ LET r == WsEffect(socks, cur, isListening, listening, mode, sura, aya)
             IN sockets' = r.sockets /\ ws' = r.ws
     ELSE sockets' = socks /\ ws' = cur

\* ------------------------------------------------------------ durable store
\* JSON.stringify of one record: its properties in insertion order, each a
\* key and a value.
StringifyMistake(m) ==
  << <<"id", m.id>>, <<"sura", m.sura>>, <<"aya", m.aya>>,
     <<"timestamp", m.timestamp>>, <<"verified", m.verified>>,
     <<"synced", m.synced>> >>

\* JSON.stringify(mistakeQueue): the array's elements in order.
Stringify(queue) == [k \in 1..Len(queue) |-> StringifyMistake(queue[k])]

\* The value of a key in a stringified object.
ValueOf(text, key) == text[CHOOSE j \in 1..Len(text) : text[j][1] = key][2]

\* JSON.parse of a stringified queue.
Parse(text) ==
  [k \in 1..Len(text) |->
     [id |-> ValueOf(text[k], "id"), sura |-> ValueOf(text[k], "sura"),
      aya |-> ValueOf(text[k], "aya"), timestamp |-> ValueOf(text[k], "timestamp"),
      verified |-> ValueOf(text[k], "verified"), synced |-> ValueOf(text[k], "synced")]]

\* The persist effect after a render that changed mistakeQueue to queue.
Persist(queue) ==
  /\ storedMistakes' = Stringify(queue)
  /\ UNCHANGED <<pendingLoad, restarts>>

\* ----------------------------------------------------------------- capture
audioStream == mediaRecorder

NewCapture(sawPlaying) ==
  [tracks |-> "live", recorder |-> "recording", stopEvent |-> FALSE,
   raf |-> TRUE, interval |-> TRUE, sawPlaying |-> sawPlaying]

RemoveAt(s, i) == SubSeq(s, 1, i - 1) \o SubSeq(s, i + 1, Len(s))

NoDiff == [seen |-> FALSE, diff |-> <<>>]

\* The state of a page that has loaded (mounted, and rendered the queue
\* the load effect read) with the given queue in the store, at time now.
PageLoaded(queue, now) ==
  /\ isListening = FALSE
  /\ currentSura = ""
  /\ currentAya = <<>>
  /\ feedbackMode = "highlight"
  /\ mistakeQueue = queue
  /\ currentVerseWords = <<>>
  /\ highlightedWords = <<>>
  /\ statusMessage = "Ready to start listening."
  /\ isSpokenCorrectionPlaying = FALSE
  /\ ws = 0
  /\ sockets = <<>>
  /\ captures = <<>>
  /\ mediaRecorder = 0
  /\ animationFrameId = 0
  /\ pendingGrants = <<>>
  /\ audioChunks = <<>>
  /\ nextChunk = 0
  /\ pendingFlush = <<>>
  /\ spokenCorrectionSource = 0
  /\ sources = <<>>
  /\ decoding = 0
  /\ clipsRequested = 0
  /\ beeps = 0
  /\ clock = now
  /\ syncRequests = EmptyBag
  /\ server = [i \in MistakeIds |-> "none"]
  /\ showCorrectionModal = FALSE
  /\ isRecordingCorrectSample = FALSE
  /\ correctSampleRecorder = 0
  /\ samples = <<>>
  /\ samplePending = 0
  /\ sampleUploads = <<>>
  /\ trainingUploads = <<>>
  /\ recordedAudioFile = NoFile
  /\ initialUploads = <<>>
  /\ uploadsIssued = 0
  /\ storedMistakes = Stringify(queue)
  /\ pendingLoad = <<>>
  /\ restarts = 0
  /\ latestDiff = NoDiff
  /\ lastOp = [op |-> "init"]

\* The first page load: nothing is in the store.
Init == PageLoaded(<<>>, 0)

\* A record an earlier run of the page left in the store, not yet verified.
StoredMistake ==
  [id |-> 1, sura |-> "Al-Fatiha", aya |-> <<"b", " ", "a">>, timestamp |-> 1,
   verified |-> "pending", synced |-> FALSE]

\* A page load that finds that record in the store.
InitWithStoredMistake == PageLoaded(<<StoredMistake>>, 1)

\* startListening up to its await of getUserMedia (the button calls it only
\* while isListening is false).
StartListening ==
  /\ ~isListening
  /\ Len(captures) + Len(pendingGrants) < MaxCaptures
  /\ pendingGrants' = Append(pendingGrants, isSpokenCorrectionPlaying)
  /\ lastOp' = [op |-> "startListening"]
  /\ UNCHANGED <<uploadVars, storeVars, sampleVars, isListening, feedbackMode, sessionVars, mistakeQueue, clock,
                 syncRequests, server, statusMessage, ws, sockets, captures,
                 mediaRecorder, animationFrameId, audioChunks, nextChunk,
                 pendingFlush, playbackVars, beeps>>

\* getUserMedia resolved: the rest of startListening's try block.
GetUserMediaResolved(g) ==
  /\ g \in 1..Len(pendingGrants)
  /\ pendingGrants' = RemoveAt(pendingGrants, g)
  /\ captures' = Append(captures, NewCapture(pendingGrants[g]))
  /\ mediaRecorder' = Len(captures) + 1
  /\ audioChunks' = <<>>
  /\ animationFrameId' = Len(captures) + 1
  /\ statusMessage' = "Listening..."
  /\ Commit(sockets, ws, TRUE, feedbackMode, currentSura, currentAya)
  /\ lastOp' = [op |-> "granted"]
  /\ UNCHANGED <<uploadVars, storeVars, sampleVars, currentVerseWords, highlightedWords, latestDiff, queueVars, nextChunk,
                 pendingFlush, playbackVars, beeps>>

GetUserMediaRejectedKeepsListening(g) ==
  /\ g \in 1..Len(pendingGrants)
  /\ pendingGrants' = RemoveAt(pendingGrants, g)
  /\ statusMessage' = "Microphone access denied or error. Please allow microphone permissions."
  /\ Commit(sockets, ws, isListening, feedbackMode, currentSura, currentAya)
  /\ lastOp' = [op |-> "denied"]
  /\ UNCHANGED <<uploadVars, storeVars, sampleVars, currentVerseWords, highlightedWords, latestDiff, queueVars, captures,
                 mediaRecorder, animationFrameId, audioChunks, nextChunk,
                 pendingFlush, playbackVars, beeps>>

\* getUserMedia rejected: startListening's catch block.
GetUserMediaRejected(g) ==
  /\ g \in 1..Len(pendingGrants)
  /\ pendingGrants' = RemoveAt(pendingGrants, g)
  /\ statusMessage' = "Microphone access denied or error. Please allow microphone permissions."
  /\ Commit(sockets, ws, FALSE, feedbackMode, currentSura, currentAya)
  /\ lastOp' = [op |-> "denied"]
  /\ UNCHANGED <<uploadVars, storeVars, sampleVars, currentVerseWords, highlightedWords, latestDiff, queueVars, captures,
                 mediaRecorder, animationFrameId, audioChunks, nextChunk,
                 pendingFlush, playbackVars, beeps>>

\* AudioBufferSourceNode.stop() and disconnect(): the node falls silent; its
\* ended event is still to come.
StopSource(srcs, i) ==
  IF i # 0 /\ srcs[i] = "playing" THEN [srcs EXCEPT ![i] = "stopped"] ELSE srcs

\* What stopListening does to the captures: stops the current recorder (its
\* stop event follows), stops the current stream's tracks and cancels the
\* animation frame animationFrameId names.  The flush interval's id is a local
\* of startListening and is not cleared.
StopCaptures(caps) ==
  [c \in 1..Len(caps) |->
     IF c = mediaRecorder
     THEN [caps[c] EXCEPT !.recorder = "inactive",
                          !.stopEvent = (caps[c].recorder = "recording") \/ @,
                          !.tracks = "stopped",
                          !.raf = IF c = animationFrameId THEN FALSE ELSE @]
     ELSE [caps[c] EXCEPT !.raf = IF c = animationFrameId THEN FALSE ELSE @]]

StopListening ==
  /\ isListening
  /\ captures' = StopCaptures(captures)
  /\ statusMessage' = "Stopped listening."
  /\ currentVerseWords' = <<>>
  /\ highlightedWords' = <<>>
  /\ latestDiff' = NoDiff
  /\ isSpokenCorrectionPlaying' = FALSE
  /\ sources' = StopSource(sources, spokenCorrectionSource)
  /\ spokenCorrectionSource' = 0
  /\ Commit(CloseSocket(sockets, ws), ws, FALSE, feedbackMode, "", <<>>)
  /\ lastOp' = [op |-> "stopListening"]
  /\ UNCHANGED <<uploadVars, storeVars, sampleVars, queueVars, mediaRecorder, animationFrameId, pendingGrants,
                 audioChunks, nextChunk, pendingFlush, decoding, clipsRequested,
                 beeps>>

\* ---------------------------------------------------------- socket events
\* ws.current.onopen of socket s: status, then the config message on ws.current.
WsOnOpen(s) ==
  /\ s \in 1..Len(sockets)
  /\ sockets[s].readyState = "connecting"
  /\ statusMessage' = "Connected to server. Start reciting!"
  /\ LET opened == [sockets EXCEPT ![s].readyState = "open"]
     IN sockets' = SendOn(opened, ws,
                          [type |-> "config", feedbackMode |-> sockets[s].feedbackMode])
  /\ lastOp' = [op |-> "open", socket |-> s]
  /\ UNCHANGED <<uploadVars, storeVars, sampleVars, isListening, feedbackMode, sessionVars, queueVars, ws,
                 captureVars, playbackVars, beeps>>

\* onclose of socket s: the close event of a socket the client closed, or the
\* server closing (or never accepting) the connection.
WsOnClose(s) ==
  /\ s \in 1..Len(sockets)
  /\ sockets[s].readyState \in {"open", "closing"}
  /\ statusMessage' = "Disconnected from server."
  /\ Commit([sockets EXCEPT ![s] = DeadSocket("closed")], ws, FALSE,
            feedbackMode, currentSura, currentAya)
  /\ lastOp' = [op |-> "close", socket |-> s, local |-> sockets[s].readyState = "closing",
                listening |-> isListening]
  /\ UNCHANGED <<uploadVars, storeVars, sampleVars, currentVerseWords, highlightedWords, latestDiff, queueVars, captureVars,
                 playbackVars, beeps>>

\* onerror of socket s: the connection failed; its close event follows.
WsOnError(s) ==
  /\ s \in 1..Len(sockets)
  /\ sockets[s].readyState \in {"connecting", "open"}
  /\ statusMessage' = "WebSocket error. Check server connection."
  /\ Commit(CloseSocket(sockets, s), ws, FALSE,
            feedbackMode, currentSura, currentAya)
  /\ lastOp' = [op |-> "error", socket |-> s, listening |-> isListening]
  /\ UNCHANGED <<uploadVars, storeVars, sampleVars, currentVerseWords, highlightedWords, latestDiff, queueVars, captureVars,
                 playbackVars, beeps>>

\* -------------------------------------------------------- inbound messages
\* playSpokenCorrection up to its await of decodeAudioData: a referenced
\* source is stopped and released first.
PlaySpokenCorrection ==
  /\ sources' = StopSource(sources, spokenCorrectionSource)
  /\ spokenCorrectionSource' = 0
  /\ isSpokenCorrectionPlaying' =
       IF spokenCorrectionSource # 0 THEN FALSE ELSE isSpokenCorrectionPlaying
  /\ decoding' = decoding + 1
  /\ clipsRequested' = clipsRequested + 1

\* onmessage of socket s, type verse_identified.
OnVerseIdentified(s, m) ==
  /\ s \in 1..Len(sockets)
  /\ sockets[s].readyState = "open"
  /\ currentVerseWords' = VerseWords(m.ayah_text)
  /\ statusMessage' = "Reciting"
  /\ highlightedWords' = <<>>
  /\ latestDiff' = NoDiff
  /\ Commit(sockets, ws, isListening, feedbackMode, m.sura_name, m.ayah_text)
  /\ lastOp' = [op |-> "verse_identified", socket |-> s]
  /\ UNCHANGED <<uploadVars, storeVars, sampleVars, queueVars, captureVars, playbackVars, beeps>>

\* onmessage of socket s, type diff_update.
OnDiffUpdate(s, diff) ==
  /\ s \in 1..Len(sockets)
  /\ sockets[s].readyState = "open"
  /\ highlightedWords' = NewHighlightedWords(diff)
  /\ latestDiff' = [seen |-> TRUE, diff |-> diff]
  /\ lastOp' = [op |-> "diff_update", socket |-> s]
  /\ UNCHANGED <<uploadVars, storeVars, sampleVars, isListening, feedbackMode, currentSura, currentAya,
                 currentVerseWords, statusMessage, ws, sockets, queueVars,
                 captureVars, playbackVars, beeps>>

\* Inbound messages that are not well formed: a type the handler does not
\* know, a verse_identified without ayah_text, a diff_update without diff.
MalformedKinds == {"unknown_type", "verse_without_text", "diff_without_array"}

\* JavaScript's undefined, as a value of currentAya that no text equals.
Undefined == <<"undefined">>

\* onmessage of socket s with a malformed message.  An unknown type matches no
\* branch.  message.diff.filter throws before any setter is called.  For a
\* verse_identified without ayah_text, setCurrentSura and setCurrentAya have
\* been called when message.ayah_text.split throws.
OnMalformedMessage(s, kind) ==
  /\ s \in 1..Len(sockets)
  /\ sockets[s].readyState = "open"
  /\ IF kind = "verse_without_text"
     THEN Commit(sockets, ws, isListening, feedbackMode, "Al-Fatiha", Undefined)
     ELSE UNCHANGED <<isListening, feedbackMode, currentSura, currentAya, ws, sockets>>
  /\ lastOp' = [op |-> "malformed", socket |-> s, kind |-> kind]
  /\ UNCHANGED <<uploadVars, storeVars, sampleVars, currentVerseWords,
                 highlightedWords, latestDiff, statusMessage, queueVars,
                 captureVars, playbackVars, beeps>>

\* The record a mistake_event makes: sura and aya are the values the handler
\* closed over.
NewMistake(id, s) ==
  [id |-> id, sura |-> sockets[s].currentSura, aya |-> sockets[s].currentAya,
   timestamp |-> clock + 1, verified |-> "pending", synced |-> FALSE]

QueueIds(queue) == { queue[k].id : k \in 1..Len(queue) }

PrependMistakeAtEnd(queue, m) == Append(queue, m)

\* setMistakeQueue(prev => [newMistake, ...prev])
PrependMistake(queue, m) == <<m>> \o queue

\* crypto.randomUUID(): a value no earlier call returned.  Only the equality
\* of ids is ever read, so the model numbers them in the order of the calls.
RandomUUID == clock + 1

\* onmessage of socket s, type mistake_event; hasAudio: the message carries
\* correction_audio_base64.
OnMistakeEvent(s, hasAudio) ==
  /\ s \in 1..Len(sockets)
  /\ sockets[s].readyState = "open"
  /\ Len(mistakeQueue) < MaxMistakes
  /\ statusMessage' = "Mistake detected!"
  /\ mistakeQueue' = PrependMistake(mistakeQueue, NewMistake(RandomUUID, s))
  /\ clock' = clock + 1
  /\ CASE sockets[s].feedbackMode = "highlight" ->
            UNCHANGED <<playbackVars, beeps>>
       [] sockets[s].feedbackMode = "beep" ->
            beeps' = beeps + 1 /\ UNCHANGED playbackVars
       [] sockets[s].feedbackMode = "spoken" /\ hasAudio ->
            PlaySpokenCorrection /\ UNCHANGED beeps
       [] OTHER -> UNCHANGED <<playbackVars, beeps>>
  /\ Persist(mistakeQueue')
  /\ lastOp' = [op |-> "mistake_event", socket |-> s]
  /\ UNCHANGED <<uploadVars, sampleVars, isListening, feedbackMode, sessionVars, ws, sockets,
                 syncRequests, server, captureVars>>

\* handleFeedbackModeChange (a radio button's onChange: mode is not the
\* checked one).
HandleFeedbackModeChange(mode) ==
  /\ mode \in Modes \ {feedbackMode}
  /\ LET sent == IF IsOpen(sockets, ws)
                 THEN SendOn(sockets, ws, [type |-> "config", feedbackMode |-> mode])
                 ELSE sockets
     IN Commit(sent, ws, isListening, mode, currentSura, currentAya)
  /\ lastOp' = [op |-> "feedbackMode", mode |-> mode, sent |-> IsOpen(sockets, ws)]
  /\ UNCHANGED <<uploadVars, storeVars, sampleVars, currentVerseWords, highlightedWords, latestDiff, statusMessage, queueVars,
                 captureVars, playbackVars, beeps>>

\* ------------------------------------------------------------ mistake queue
MarkVerifiedKeepsSynced(queue, id, status) ==
  [k \in 1..Len(queue) |->
     IF queue[k].id = id THEN [queue[k] EXCEPT !.verified = status] ELSE queue[k]]

\* prev.map(m => (m.id === id ? { ...m, verified: status, synced: false } : m))
MarkVerified(queue, id, status) ==
  [k \in 1..Len(queue) |->
     IF queue[k].id = id
     THEN [queue[k] EXCEPT !.verified = status, !.synced = FALSE]
     ELSE queue[k]]

\* handleMistakeVerification: the "Mistake" button, shown for a pending record.
HandleMistakeVerification(id, status) ==
  /\ \E k \in 1..Len(mistakeQueue) :
       mistakeQueue[k].id = id /\ mistakeQueue[k].verified = "pending"
  /\ status = "incorrect"
  /\ mistakeQueue' = MarkVerified(mistakeQueue, id, status)
  /\ statusMessage' = "Mistake marked."
  /\ Persist(mistakeQueue')
  /\ lastOp' = [op |-> "verify", id |-> id, status |-> status,
                wasSynced |-> \E k \in 1..Len(mistakeQueue) :
                                mistakeQueue[k].id = id /\ mistakeQueue[k].synced]
  /\ UNCHANGED <<uploadVars, sampleVars, isListening, feedbackMode, sessionVars, ws, sockets, clock,
                 syncRequests, server, captureVars, playbackVars, beeps>>

RECURSIVE Unsynced(_)
\* mistakeQueue.filter(m => !m.synced)
Unsynced(queue) ==
  IF queue = <<>> THEN <<>>
  ELSE (IF ~Head(queue).synced THEN <<Head(queue)>> ELSE <<>>) \o Unsynced(Tail(queue))

SyncPayloadOfWholeQueue(unsynced) ==
  [k \in 1..Len(mistakeQueue) |->
     [id |-> mistakeQueue[k].id, sura |-> mistakeQueue[k].sura,
      aya |-> mistakeQueue[k].aya, timestamp |-> mistakeQueue[k].timestamp,
      verified |-> mistakeQueue[k].verified]]

\* unsynced.map(({ synced, ...rest }) => rest)
SyncPayload(unsynced) ==
  [k \in 1..Len(unsynced) |->
     [id |-> unsynced[k].id, sura |-> unsynced[k].sura, aya |-> unsynced[k].aya,
      timestamp |-> unsynced[k].timestamp, verified |-> unsynced[k].verified]]

\* syncMistakes up to its await of fetch (a timer of the sync effect fired);
\* with nothing unsynced it returns at once.
SyncMistakes ==
  /\ Unsynced(mistakeQueue) # <<>>
  /\ BagCardinality(syncRequests) < MaxInFlight
  /\ syncRequests' = syncRequests (+) SetToBag({SyncPayload(Unsynced(mistakeQueue))})
  /\ lastOp' = [op |-> "sync"]
  /\ UNCHANGED <<uploadVars, storeVars, sampleVars, isListening, feedbackMode, sessionVars, statusMessage, ws,
                 sockets, mistakeQueue, clock, server, captureVars,
                 playbackVars, beeps>>

MarkSyncedAllUnsynced(queue, payload) ==
  [k \in 1..Len(queue) |-> [queue[k] EXCEPT !.synced = TRUE]]

\* prev.map(m => (syncedIds.has(m.id) ? { ...m, synced: true } : m)) with
\* syncedIds the ids of the records the request carried.
MarkSynced(queue, payload) ==
  [k \in 1..Len(queue) |->
     IF queue[k].id \in QueueIds(payload)
     THEN [queue[k] EXCEPT !.synced = TRUE]
     ELSE queue[k]]

\* What the sync endpoint holds after accepting a payload.
Delivered(srv, payload) ==
  [i \in MistakeIds |->
     IF \E k \in 1..Len(payload) : payload[k].id = i
     THEN payload[CHOOSE k \in 1..Len(payload) : payload[k].id = i].verified
     ELSE srv[i]]

\* The fetch of a request with payload p resolved with res.ok.
SyncSucceeded(p) ==
  /\ BagIn(p, syncRequests)
  /\ mistakeQueue' = MarkSynced(mistakeQueue, p)
  /\ statusMessage' = "Synced mistakes to server."
  /\ server' = Delivered(server, p)
  /\ syncRequests' = syncRequests (-) SetToBag({p})
  /\ Persist(mistakeQueue')
  /\ lastOp' = [op |-> "syncOk"]
  /\ UNCHANGED <<uploadVars, sampleVars, isListening, feedbackMode, sessionVars, ws, sockets, clock,
                 captureVars, playbackVars, beeps>>

\* The fetch of a request with payload p rejected or resolved with a
\* non-success status: the catch block only logs.
SyncFailed(p) ==
  /\ BagIn(p, syncRequests)
  /\ syncRequests' = syncRequests (-) SetToBag({p})
  /\ lastOp' = [op |-> "syncFail"]
  /\ UNCHANGED <<uploadVars, storeVars, sampleVars, isListening, feedbackMode, sessionVars, statusMessage, ws,
                 sockets, mistakeQueue, clock, server, captureVars,
                 playbackVars, beeps>>

\* ------------------------------------------------------------------ playback
\* decodeAudioData resolved: the rest of playSpokenCorrection's try block.
DecodeResolved ==
  /\ decoding > 0
  /\ decoding' = decoding - 1
  /\ sources' = Append(sources, "playing")
  /\ spokenCorrectionSource' = Len(sources) + 1
  /\ isSpokenCorrectionPlaying' = TRUE
  /\ lastOp' = [op |-> "decoded"]
  /\ UNCHANGED <<uploadVars, storeVars, sampleVars, isListening, feedbackMode, sessionVars, statusMessage, ws,
                 sockets, queueVars, captureVars, clipsRequested, beeps>>

\* decodeAudioData rejected: playSpokenCorrection's catch block.
DecodeRejected ==
  /\ decoding > 0
  /\ decoding' = decoding - 1
  /\ statusMessage' = "Error playing correction audio."
  /\ isSpokenCorrectionPlaying' = FALSE
  /\ lastOp' = [op |-> "decodeFailed"]
  /\ UNCHANGED <<uploadVars, storeVars, sampleVars, isListening, feedbackMode, sessionVars, ws, sockets, queueVars,
                 captureVars, spokenCorrectionSource, sources, clipsRequested,
                 beeps>>

\* source.onended of source i: the clip played to its end, or was stopped.
SourceOnEnded(i) ==
  /\ i \in 1..Len(sources)
  /\ sources[i] \in {"playing", "stopped"}
  /\ sources' = [sources EXCEPT ![i] = "ended"]
  /\ isSpokenCorrectionPlaying' = FALSE
  /\ spokenCorrectionSource' = 0
  /\ lastOp' = [op |-> "ended", source |-> i]
  /\ UNCHANGED <<uploadVars, storeVars, sampleVars, isListening, feedbackMode, sessionVars, statusMessage, ws,
                 sockets, queueVars, captureVars, decoding, clipsRequested, beeps>>

\* One animation frame of capture c's checkSilence; loud: average > 10.  The
\* closure reads the isSpokenCorrectionPlaying of the render startListening
\* was called in.
CheckSilence(c, loud) ==
  /\ c \in 1..Len(captures)
  /\ captures[c].raf
  /\ IF captures[c].sawPlaying /\ loud /\ spokenCorrectionSource # 0
     THEN /\ sources' = StopSource(sources, spokenCorrectionSource)
          /\ spokenCorrectionSource' = 0
          /\ isSpokenCorrectionPlaying' = FALSE
     ELSE UNCHANGED <<sources, spokenCorrectionSource, isSpokenCorrectionPlaying>>
  /\ animationFrameId' = c
  /\ lastOp' = [op |-> "frame", capture |-> c, loud |-> loud]
  /\ UNCHANGED <<uploadVars, storeVars, sampleVars, isListening, feedbackMode, sessionVars, statusMessage, ws,
                 sockets, queueVars, captures, mediaRecorder, pendingGrants,
                 audioChunks, nextChunk, pendingFlush, decoding, clipsRequested,
                 beeps>>

\* ------------------------------------------------------------- audio frames
\* ondataavailable of capture c's recorder (every 250 ms while recording).
OnDataAvailable(c) ==
  /\ c \in 1..Len(captures)
  /\ captures[c].recorder = "recording"
  /\ nextChunk < MaxChunks
  /\ nextChunk' = nextChunk + 1
  /\ audioChunks' = Append(audioChunks, nextChunk + 1)
  /\ lastOp' = [op |-> "chunk", capture |-> c]
  /\ UNCHANGED <<uploadVars, storeVars, sampleVars, isListening, feedbackMode, sessionVars, statusMessage, ws,
                 sockets, queueVars, captures, mediaRecorder, animationFrameId,
                 pendingGrants, pendingFlush, playbackVars, beeps>>

\* A tick of capture c's 500 ms interval, up to its await of arrayBuffer().
FlushTick(c) ==
  /\ c \in 1..Len(captures)
  /\ captures[c].interval
  /\ mediaRecorder # 0
  /\ captures[mediaRecorder].recorder = "recording"
  /\ audioChunks # <<>>
  /\ IF IsOpen(sockets, ws)
     THEN /\ Len(pendingFlush) < MaxPending
          /\ pendingFlush' = Append(pendingFlush, [blob |-> audioChunks, onstop |-> FALSE])
          /\ UNCHANGED audioChunks
     ELSE /\ audioChunks' = <<>>
          /\ UNCHANGED pendingFlush
  /\ lastOp' = [op |-> "tick", capture |-> c]
  /\ UNCHANGED <<uploadVars, storeVars, sampleVars, isListening, feedbackMode, sessionVars, statusMessage, ws,
                 sockets, queueVars, captures, mediaRecorder, animationFrameId,
                 pendingGrants, nextChunk, playbackVars, beeps>>

\* arrayBuffer() of flush f resolved: ws.current.send, then the buffer is
\* cleared.  send throws on a null ws.current or a connecting socket, and
\* the clearing is skipped.
FlushResume(f) ==
  /\ f \in 1..Len(pendingFlush)
  /\ pendingFlush' = RemoveAt(pendingFlush, f)
  /\ IF ws = 0 \/ sockets[ws].readyState = "connecting"
     THEN UNCHANGED <<sockets, audioChunks>>
     ELSE /\ sockets' = SendOn(sockets, ws,
                               [type |-> "audio", chunks |-> pendingFlush[f].blob])
          /\ audioChunks' = <<>>
  /\ lastOp' = [op |-> "flushed", blob |-> pendingFlush[f].blob]
  /\ UNCHANGED <<uploadVars, storeVars, sampleVars, isListening, feedbackMode, sessionVars, statusMessage, ws,
                 queueVars, captures, mediaRecorder, animationFrameId,
                 pendingGrants, nextChunk, playbackVars, beeps>>

\* The stop of capture c's recorder: a last dataavailable (final: it carries a
\* chunk the model still has room for), then onstop up to its await.
RecorderOnStop(c, final) ==
  /\ c \in 1..Len(captures)
  /\ captures[c].stopEvent
  /\ final => nextChunk < MaxChunks
  /\ captures' = [captures EXCEPT ![c].stopEvent = FALSE]
  /\ nextChunk' = IF final THEN nextChunk + 1 ELSE nextChunk
  /\ LET chunks == IF final THEN Append(audioChunks, nextChunk + 1) ELSE audioChunks
     IN IF chunks # <<>> /\ IsOpen(sockets, ws)
        THEN /\ Len(pendingFlush) < MaxPending
             /\ pendingFlush' = Append(pendingFlush, [blob |-> chunks, onstop |-> TRUE])
             /\ audioChunks' = chunks
        ELSE /\ audioChunks' = <<>>
             /\ UNCHANGED pendingFlush
  /\ lastOp' = [op |-> "recorderStop", capture |-> c]
  /\ UNCHANGED <<uploadVars, storeVars, sampleVars, isListening, feedbackMode, sessionVars, statusMessage, ws,
                 sockets, queueVars, mediaRecorder, animationFrameId,
                 pendingGrants, playbackVars, beeps>>

\* ---------------------------------------------------- correct-sample workflow
\* What the workflow's handlers leave alone: all of the analyzer but the
\* status line.
analyzerVars == <<isListening, feedbackMode, sessionVars, ws, sockets, queueVars,
                  captureVars, playbackVars, beeps>>

NewSample == [tracks |-> "live", recorder |-> "recording", stopEvent |-> FALSE,
              cancelled |-> FALSE]

\* stream.getTracks().forEach(track => track.stop()) on sample i's stream; a
\* recorder still recording a stream whose tracks have all ended stops, and
\* its stop event follows.
StopSampleTracks(samps, i) ==
  IF i = 0 THEN samps
  ELSE [samps EXCEPT ![i].tracks = "stopped",
                     ![i].recorder = "inactive",
                     ![i].stopEvent = (samps[i].recorder = "recording") \/ @]

\* The "Correct (Recite)" button of a pending record: the modal opens.
OpenCorrectionModal(id) ==
  /\ \E k \in 1..Len(mistakeQueue) :
       mistakeQueue[k].id = id /\ mistakeQueue[k].verified = "pending"
  /\ ~showCorrectionModal
  /\ showCorrectionModal' = TRUE
  /\ lastOp' = [op |-> "openModal"]
  /\ UNCHANGED <<uploadVars, storeVars, analyzerVars, statusMessage, isRecordingCorrectSample,
                 correctSampleRecorder, samples, samplePending, sampleUploads,
                 trainingUploads>>

\* startRecordingCorrectSample up to its await of getUserMedia (the modal's
\* "Start Recording" button, shown while isRecordingCorrectSample is false).
StartRecordingCorrectSample ==
  /\ showCorrectionModal
  /\ ~isRecordingCorrectSample
  /\ Len(samples) + samplePending < MaxSamples
  /\ samplePending' = samplePending + 1
  /\ lastOp' = [op |-> "startSample"]
  /\ UNCHANGED <<uploadVars, storeVars, analyzerVars, statusMessage, showCorrectionModal,
                 isRecordingCorrectSample, correctSampleRecorder, samples,
                 sampleUploads, trainingUploads>>

\* getUserMedia resolved: the rest of startRecordingCorrectSample's try block.
SampleGranted ==
  /\ samplePending > 0
  /\ samplePending' = samplePending - 1
  /\ samples' = Append(samples, NewSample)
  /\ correctSampleRecorder' = Len(samples) + 1
  /\ isRecordingCorrectSample' = TRUE
  /\ statusMessage' = "Recording your correct recitation..."
  /\ lastOp' = [op |-> "sampleGranted"]
  /\ UNCHANGED <<uploadVars, storeVars, analyzerVars, showCorrectionModal, sampleUploads, trainingUploads>>

\* getUserMedia rejected: startRecordingCorrectSample's catch block.
SampleDenied ==
  /\ samplePending > 0
  /\ samplePending' = samplePending - 1
  /\ isRecordingCorrectSample' = FALSE
  /\ statusMessage' = "Could not record correct sample. Microphone access denied."
  /\ lastOp' = [op |-> "sampleDenied"]
  /\ UNCHANGED <<uploadVars, storeVars, analyzerVars, showCorrectionModal, correctSampleRecorder, samples,
                 sampleUploads, trainingUploads>>

\* stopRecordingCorrectSample on the samples samps: the referenced recorder is
\* stopped if it is recording (its stop event follows) and the tracks of its
\* stream are stopped.
StoppedSample(samps) == StopSampleTracks(samps, correctSampleRecorder)

\* The modal's "Stop Recording" button, shown while isRecordingCorrectSample.
StopRecordingCorrectSample ==
  /\ showCorrectionModal
  /\ isRecordingCorrectSample
  /\ samples' = StoppedSample(samples)
  /\ isRecordingCorrectSample' = FALSE
  /\ statusMessage' = "Correct sample recording stopped."
  /\ lastOp' = [op |-> "stopSample"]
  /\ UNCHANGED <<uploadVars, storeVars, analyzerVars, showCorrectionModal, correctSampleRecorder,
                 samplePending, sampleUploads, trainingUploads>>

\* The recording that Cancel ends is marked as cancelled (history).
MarkCancelled(samps) ==
  IF correctSampleRecorder # 0 /\ samps[correctSampleRecorder].recorder = "recording"
  THEN [samps EXCEPT ![correctSampleRecorder].cancelled = TRUE]
  ELSE samps

\* The modal's Cancel button: stopRecordingCorrectSample if a recording is
\* on, then the modal closes.
CancelCorrectionModal ==
  /\ showCorrectionModal
  /\ IF isRecordingCorrectSample
     THEN /\ samples' = StoppedSample(MarkCancelled(samples))
          /\ statusMessage' = "Correct sample recording stopped."
     ELSE UNCHANGED <<samples, statusMessage>>
  /\ isRecordingCorrectSample' = FALSE
  /\ showCorrectionModal' = FALSE
  /\ lastOp' = [op |-> "cancelModal", recording |-> isRecordingCorrectSample]
  /\ UNCHANGED <<uploadVars, storeVars, analyzerVars, correctSampleRecorder, samplePending,
                 sampleUploads, trainingUploads>>

\* onstop of sample i's recorder, up to the await of fetch in
\* uploadCorrectSample: the blob is built and the upload request issued.
SampleOnStop(i) ==
  /\ i \in 1..Len(samples)
  /\ samples[i].stopEvent
  /\ samples' = [samples EXCEPT ![i].stopEvent = FALSE]
  /\ sampleUploads' = Append(sampleUploads, i)
  /\ statusMessage' = "Uploading correct sample for training..."
  /\ lastOp' = [op |-> "sampleStop", sample |-> i]
  /\ UNCHANGED <<uploadVars, storeVars, analyzerVars, showCorrectionModal, isRecordingCorrectSample,
                 correctSampleRecorder, samplePending, trainingUploads>>

\* The rest of onstop once uploadCorrectSample returned: the tracks of the
\* stream of correctSampleRecorder.current are stopped and the modal closes.
AfterUpload(u) ==
  /\ u \in 1..Len(sampleUploads)
  /\ sampleUploads' = RemoveAt(sampleUploads, u)
  /\ samples' = StoppedSample(samples)
  /\ isRecordingCorrectSample' = FALSE
  /\ showCorrectionModal' = FALSE
  /\ UNCHANGED <<uploadVars, storeVars, analyzerVars, correctSampleRecorder, samplePending>>

\* The fetch of upload u resolved with response.ok: the record is stored.
UploadCorrectSampleSucceeded(u) ==
  /\ AfterUpload(u)
  /\ trainingUploads' = <<sampleUploads[u]>> \o trainingUploads
  /\ statusMessage' = "Correct sample uploaded successfully!"
  /\ lastOp' = [op |-> "uploadOk"]

\* The fetch of upload u rejected or resolved without response.ok.
UploadCorrectSampleFailed(u) ==
  /\ AfterUpload(u)
  /\ UNCHANGED trainingUploads
  /\ statusMessage' = "Failed to upload correct sample."
  /\ lastOp' = [op |-> "uploadFailed"]

\* ------------------------------------------------------------- page restart
\* A capture of a page that was closed: the browser released it.
ReleasedCapture ==
  [tracks |-> "stopped", recorder |-> "inactive", stopEvent |-> FALSE,
   raf |-> FALSE, interval |-> FALSE, sawPlaying |-> FALSE]

\* The page is closed and loaded again, up to the end of the mount's effects:
\* every state and ref has its initial value; the load effect reads the store
\* and calls setMistakeQueue with what it parsed; the persist effect of this
\* first render then writes the initial, empty queue.  What the closed page
\* held is closed and released, and the responses to its requests are never
\* handled.  The store, the server and the clock live on.
Restart ==
  /\ restarts < MaxRestarts
  /\ restarts' = restarts + 1
  /\ pendingLoad' = <<Parse(storedMistakes)>>
  /\ storedMistakes' = Stringify(<<>>)
  /\ mistakeQueue' = <<>>
  /\ isListening' = FALSE /\ feedbackMode' = "highlight"
  /\ currentSura' = "" /\ currentAya' = <<>>
  /\ currentVerseWords' = <<>> /\ highlightedWords' = <<>> /\ latestDiff' = NoDiff
  /\ statusMessage' = "Ready to start listening."
  /\ ws' = 0
  /\ sockets' = [s \in 1..Len(sockets) |-> DeadSocket("closed")]
  /\ captures' = [c \in 1..Len(captures) |-> ReleasedCapture]
  /\ mediaRecorder' = 0 /\ animationFrameId' = 0 /\ pendingGrants' = <<>>
  /\ audioChunks' = <<>> /\ pendingFlush' = <<>>
  /\ isSpokenCorrectionPlaying' = FALSE /\ spokenCorrectionSource' = 0
  /\ sources' = [i \in 1..Len(sources) |-> "ended"]
  /\ decoding' = 0
  /\ syncRequests' = EmptyBag
  /\ showCorrectionModal' = FALSE /\ isRecordingCorrectSample' = FALSE
  /\ correctSampleRecorder' = 0 /\ samplePending' = 0 /\ sampleUploads' = <<>>
  /\ samples' = [i \in 1..Len(samples) |->
                   [samples[i] EXCEPT !.tracks = "stopped", !.recorder = "inactive",
                                      !.stopEvent = FALSE]]
  /\ recordedAudioFile' = NoFile /\ initialUploads' = <<>>
  /\ lastOp' = [op |-> "restart", stored |-> Parse(storedMistakes)]
  /\ UNCHANGED <<clock, server, trainingUploads, uploadsIssued, nextChunk,
                 clipsRequested, beeps>>

\* The render after the mount applies the load effect's setMistakeQueue, and
\* the persist effect writes the loaded queue.
LoadCommitted ==
  /\ pendingLoad # <<>>
  /\ mistakeQueue' = pendingLoad[1]
  /\ pendingLoad' = <<>>
  /\ storedMistakes' = Stringify(pendingLoad[1])
  /\ lastOp' = [op |-> "loaded"]
  /\ UNCHANGED <<uploadVars, sampleVars, restarts, isListening, feedbackMode,
                 sessionVars, statusMessage, ws, sockets, clock, syncRequests,
                 server, captureVars, playbackVars, beeps>>

\* ------------------------------------------------- initial-recitation upload
\* What the upload handlers leave alone.
nonUploadVars == <<analyzerVars, storeVars, showCorrectionModal,
                   isRecordingCorrectSample, correctSampleRecorder, samples,
                   samplePending, sampleUploads>>

\* file.type.startsWith('audio/')
IsAudio(file) == Len(file.type) > 0 /\ file.type[1] = "audio"

\* handleAudioFileUpload: the file input's onChange with the picked file.
HandleAudioFileUpload(file) ==
  /\ IF IsAudio(file)
     THEN /\ recordedAudioFile' = file
          /\ statusMessage' = "Audio file selected for training."
     ELSE /\ recordedAudioFile' = NoFile
          /\ statusMessage' = "Please select a valid audio file (.mp3, .wav, etc.)."
  /\ lastOp' = [op |-> "fileSelected"]
  /\ UNCHANGED <<nonUploadVars, initialUploads, uploadsIssued, trainingUploads>>

\* uploadInitialTrainingAudio up to its await of fetch (the button is disabled
\* while no file is selected).
UploadInitialTrainingAudio ==
  /\ recordedAudioFile # NoFile
  /\ uploadsIssued < MaxUploads
  /\ uploadsIssued' = uploadsIssued + 1
  /\ initialUploads' = Append(initialUploads, recordedAudioFile)
  /\ statusMessage' = "Uploading for training..."
  /\ lastOp' = [op |-> "initialUpload"]
  /\ UNCHANGED <<nonUploadVars, recordedAudioFile, trainingUploads>>

\* The fetch of upload u resolved with response.ok: the record is stored and
\* the selection cleared.
InitialUploadSucceeded(u) ==
  /\ u \in 1..Len(initialUploads)
  /\ initialUploads' = RemoveAt(initialUploads, u)
  /\ statusMessage' = "File uploaded successfully for initial training."
  /\ trainingUploads' = <<0>> \o trainingUploads
  /\ recordedAudioFile' = NoFile
  /\ lastOp' = [op |-> "initialUploadOk"]
  /\ UNCHANGED <<nonUploadVars, uploadsIssued>>

InitialUploadFailedClearsFile(u) ==
  /\ u \in 1..Len(initialUploads)
  /\ initialUploads' = RemoveAt(initialUploads, u)
  /\ statusMessage' = "Failed to upload initial training audio."
  /\ recordedAudioFile' = NoFile
  /\ lastOp' = [op |-> "initialUploadFailed"]
  /\ UNCHANGED <<nonUploadVars, uploadsIssued, trainingUploads>>

\* The fetch of upload u rejected or resolved without response.ok: the catch
\* block.
InitialUploadFailed(u) ==
  /\ u \in 1..Len(initialUploads)
  /\ initialUploads' = RemoveAt(initialUploads, u)
  /\ statusMessage' = "Failed to upload initial training audio."
  /\ lastOp' = [op |-> "initialUploadFailed"]
  /\ UNCHANGED <<nonUploadVars, uploadsIssued, recordedAudioFile, trainingUploads>>

\* ------------------------------------------------------------ specification
Next ==
  \/ StartListening
  \/ \E g \in 1..MaxCaptures : GetUserMediaResolved(g)
  \/ \E g \in 1..MaxCaptures : GetUserMediaRejected(g)
  \/ StopListening
  \/ \E s \in 1..MaxSockets : WsOnOpen(s)
  \/ \E s \in 1..MaxSockets : WsOnClose(s)
  \/ \E s \in 1..MaxSockets : WsOnError(s)
  \/ \E s \in 1..MaxSockets, m \in VerseMsgs : OnVerseIdentified(s, m)
  \/ \E s \in 1..MaxSockets, d \in DiffMsgs : OnDiffUpdate(s, d)
  \/ \E s \in 1..MaxSockets, a \in BOOLEAN : OnMistakeEvent(s, a)
  \/ \E s \in 1..MaxSockets, k \in MalformedKinds : OnMalformedMessage(s, k)
  \/ \E m \in Modes : HandleFeedbackModeChange(m)
  \/ \E i \in MistakeIds, st \in Statuses : HandleMistakeVerification(i, st)
  \/ SyncMistakes
  \/ \E p \in BagToSet(syncRequests) : SyncSucceeded(p)
  \/ \E p \in BagToSet(syncRequests) : SyncFailed(p)
  \/ DecodeResolved
  \/ DecodeRejected
  \/ \E i \in 1..MaxMistakes : SourceOnEnded(i)
  \/ \E c \in 1..MaxCaptures, loud \in BOOLEAN : CheckSilence(c, loud)
  \/ \E c \in 1..MaxCaptures : OnDataAvailable(c)
  \/ \E c \in 1..MaxCaptures : FlushTick(c)
  \/ \E f \in 1..MaxPending : FlushResume(f)
  \/ \E c \in 1..MaxCaptures, final \in BOOLEAN : RecorderOnStop(c, final)
  \/ \E i \in MistakeIds : OpenCorrectionModal(i)
  \/ StartRecordingCorrectSample
  \/ SampleGranted
  \/ SampleDenied
  \/ StopRecordingCorrectSample
  \/ CancelCorrectionModal
  \/ \E i \in 1..MaxSamples : SampleOnStop(i)
  \/ \E u \in 1..MaxSamples : UploadCorrectSampleSucceeded(u)
  \/ \E u \in 1..MaxSamples : UploadCorrectSampleFailed(u)
  \/ \E file \in Files : HandleAudioFileUpload(file)
  \/ UploadInitialTrainingAudio
  \/ \E u \in 1..MaxUploads : InitialUploadSucceeded(u)
  \/ \E u \in 1..MaxUploads : InitialUploadFailed(u)
  \/ Restart
  \/ LoadCommitted

Spec == Init /\ [][Next]_vars

\* The session engine: the capture pipeline's start and stop, the socket and
\* its inbound messages, in the feedback mode the page loads with.  No sync
\* request is issued, no record verified, no audio chunk produced and no
\* decode completes: none of these writes the session's state.
NextSession ==
  \/ StartListening
  \/ \E g \in 1..MaxCaptures : GetUserMediaResolved(g)
  \/ \E g \in 1..MaxCaptures : GetUserMediaRejected(g)
  \/ StopListening
  \/ \E s \in 1..MaxSockets : WsOnOpen(s)
  \/ \E s \in 1..MaxSockets : WsOnClose(s)
  \/ \E s \in 1..MaxSockets : WsOnError(s)
  \/ \E s \in 1..MaxSockets, m \in VerseMsgs : OnVerseIdentified(s, m)
  \/ \E s \in 1..MaxSockets, d \in DiffMsgs : OnDiffUpdate(s, d)
  \/ \E s \in 1..MaxSockets, a \in BOOLEAN : OnMistakeEvent(s, a)
  \/ \E c \in 1..MaxCaptures, loud \in BOOLEAN : CheckSilence(c, loud)

SpecSession == Init /\ [][NextSession]_vars

\* The verse context and the highlights: as NextSession without the
\* mistake_event messages, which write neither.
NextHighlights ==
  \/ StartListening
  \/ \E g \in 1..MaxCaptures : GetUserMediaResolved(g)
  \/ \E g \in 1..MaxCaptures : GetUserMediaRejected(g)
  \/ StopListening
  \/ \E s \in 1..MaxSockets : WsOnOpen(s)
  \/ \E s \in 1..MaxSockets : WsOnClose(s)
  \/ \E s \in 1..MaxSockets : WsOnError(s)
  \/ \E s \in 1..MaxSockets, m \in VerseMsgs : OnVerseIdentified(s, m)
  \/ \E s \in 1..MaxSockets, d \in DiffMsgs : OnDiffUpdate(s, d)

SpecHighlights == Init /\ [][NextHighlights]_vars

\* Feedback on mistakes: sessions that start and lose their socket, feedback
\* mode changes and mistake_event messages; no verse or diff arrives and no
\* decode completes.
NextFeedback ==
  \/ StartListening
  \/ \E g \in 1..MaxCaptures : GetUserMediaResolved(g)
  \/ \E s \in 1..MaxSockets : WsOnOpen(s)
  \/ \E s \in 1..MaxSockets : WsOnClose(s)
  \/ \E s \in 1..MaxSockets, a \in BOOLEAN : OnMistakeEvent(s, a)
  \/ \E m \in Modes : HandleFeedbackModeChange(m)

SpecFeedback == Init /\ [][NextFeedback]_vars

\* The mistake queue and its sync: a listening session delivers mistake_event
\* messages, the user verifies records and the sync timers fire.  The queue is
\* written by these handlers only, so the session's other events are left out.
NextQueue ==
  \/ StartListening
  \/ \E g \in 1..MaxCaptures : GetUserMediaResolved(g)
  \/ \E s \in 1..MaxSockets : WsOnOpen(s)
  \/ \E s \in 1..MaxSockets, a \in BOOLEAN : OnMistakeEvent(s, a)
  \/ \E i \in MistakeIds, st \in Statuses : HandleMistakeVerification(i, st)
  \/ SyncMistakes
  \/ \E p \in BagToSet(syncRequests) : SyncSucceeded(p)
  \/ \E p \in BagToSet(syncRequests) : SyncFailed(p)

SpecQueue == Init /\ [][NextQueue]_vars

\* SpecQueue with the sync timers firing for as long as the page lives (the
\* sync effect re-arms its interval on every render that changed the queue)
\* and a server that does not fail for ever: a timer that stays due fires, and
\* responses that keep being awaited include a successful one.
SpecQueueFair ==
  /\ SpecQueue
  /\ WF_vars(SyncMistakes)
  /\ SF_vars(\E p \in BagToSet(syncRequests) : SyncSucceeded(p))

\* The correction playback: a listening session in any feedback mode, its
\* mistake_event messages, the decodes and the ends of the clips they start,
\* and the voice-activity frames of the capture; the session can be stopped.
NextPlayback ==
  \/ StartListening
  \/ \E g \in 1..MaxCaptures : GetUserMediaResolved(g)
  \/ StopListening
  \/ \E s \in 1..MaxSockets : WsOnOpen(s)
  \/ \E s \in 1..MaxSockets, a \in BOOLEAN : OnMistakeEvent(s, a)
  \/ \E m \in Modes : HandleFeedbackModeChange(m)
  \/ DecodeResolved
  \/ DecodeRejected
  \/ \E i \in 1..MaxMistakes : SourceOnEnded(i)
  \/ \E c \in 1..MaxCaptures, loud \in BOOLEAN : CheckSilence(c, loud)

SpecPlayback == Init /\ [][NextPlayback]_vars

\* The capture pipeline: sessions that start (or are denied the microphone)
\* and stop, the socket opening, the recorder's chunks and stop event, and
\* the flush interval's ticks with their awaited sends.
NextCapture ==
  \/ StartListening
  \/ \E g \in 1..MaxCaptures : GetUserMediaResolved(g)
  \/ \E g \in 1..MaxCaptures : GetUserMediaRejected(g)
  \/ StopListening
  \/ \E s \in 1..MaxSockets : WsOnOpen(s)
  \/ \E c \in 1..MaxCaptures : OnDataAvailable(c)
  \/ \E c \in 1..MaxCaptures : FlushTick(c)
  \/ \E f \in 1..MaxPending : FlushResume(f)
  \/ \E c \in 1..MaxCaptures, final \in BOOLEAN : RecorderOnStop(c, final)

SpecCapture == Init /\ [][NextCapture]_vars

\* The correct-sample workflow next to a listening session: the session
\* starts and delivers the mistake_event whose record the modal is opened
\* for; the workflow's recordings are started, stopped and cancelled and
\* their uploads complete.
NextSample ==
  \/ StartListening
  \/ \E g \in 1..MaxCaptures : GetUserMediaResolved(g)
  \/ StopListening
  \/ \E s \in 1..MaxSockets : WsOnOpen(s)
  \/ \E s \in 1..MaxSockets, a \in BOOLEAN : OnMistakeEvent(s, a)
  \/ \E i \in MistakeIds : OpenCorrectionModal(i)
  \/ StartRecordingCorrectSample
  \/ SampleGranted
  \/ SampleDenied
  \/ StopRecordingCorrectSample
  \/ CancelCorrectionModal
  \/ \E i \in 1..MaxSamples : SampleOnStop(i)
  \/ \E u \in 1..MaxSamples : UploadCorrectSampleSucceeded(u)
  \/ \E u \in 1..MaxSamples : UploadCorrectSampleFailed(u)

SpecSample == Init /\ [][NextSample]_vars

\* The training uploads on a page that loaded with a pending record in the
\* store: files picked and uploaded as initial recitations, and correct
\* samples recorded for the pending record and uploaded when the recording
\* is stopped.
NextUploads ==
  \/ \E i \in MistakeIds : OpenCorrectionModal(i)
  \/ StartRecordingCorrectSample
  \/ SampleGranted
  \/ StopRecordingCorrectSample
  \/ \E i \in 1..MaxSamples : SampleOnStop(i)
  \/ \E u \in 1..MaxSamples : UploadCorrectSampleSucceeded(u)
  \/ \E u \in 1..MaxSamples : UploadCorrectSampleFailed(u)
  \/ \E file \in Files : HandleAudioFileUpload(file)
  \/ UploadInitialTrainingAudio
  \/ \E u \in 1..MaxUploads : InitialUploadSucceeded(u)
  \/ \E u \in 1..MaxUploads : InitialUploadFailed(u)

SpecUploads == InitWithStoredMistake /\ [][NextUploads]_vars

\* The outbound side of the channel: sessions start and stop, their sockets
\* open, the feedback mode changes, and the recorder's chunks are flushed.
NextChannel ==
  \/ StartListening
  \/ \E g \in 1..MaxCaptures : GetUserMediaResolved(g)
  \/ StopListening
  \/ \E s \in 1..MaxSockets : WsOnOpen(s)
  \/ \E m \in Modes : HandleFeedbackModeChange(m)
  \/ \E c \in 1..MaxCaptures : OnDataAvailable(c)
  \/ \E c \in 1..MaxCaptures : FlushTick(c)
  \/ \E f \in 1..MaxPending : FlushResume(f)

SpecChannel == Init /\ [][NextChannel]_vars

\* The inbound side of the channel: a listening session whose socket
\* delivers well-formed and malformed messages.
NextMessages ==
  \/ StartListening
  \/ \E g \in 1..MaxCaptures : GetUserMediaResolved(g)
  \/ \E s \in 1..MaxSockets : WsOnOpen(s)
  \/ \E s \in 1..MaxSockets, m \in VerseMsgs : OnVerseIdentified(s, m)
  \/ \E s \in 1..MaxSockets, d \in DiffMsgs : OnDiffUpdate(s, d)
  \/ \E s \in 1..MaxSockets, a \in BOOLEAN : OnMistakeEvent(s, a)
  \/ \E s \in 1..MaxSockets, k \in MalformedKinds : OnMalformedMessage(s, k)

SpecMessages == Init /\ [][NextMessages]_vars

\* The durable store: sessions deliver mistake_event messages, the user
\* verifies records, and the page is closed and loaded again.
NextStore ==
  \/ StartListening
  \/ \E g \in 1..MaxCaptures : GetUserMediaResolved(g)
  \/ \E s \in 1..MaxSockets : WsOnOpen(s)
  \/ \E s \in 1..MaxSockets, a \in BOOLEAN : OnMistakeEvent(s, a)
  \/ \E i \in MistakeIds, st \in Statuses : HandleMistakeVerification(i, st)
  \/ Restart
  \/ LoadCommitted

SpecStore == Init /\ [][NextStore]_vars

\* ------------------------------------------------------------------- claims
\* A step that handles an inbound verse_identified, diff_update or
\* mistake_event message.
InboundEvent ==
  \/ \E s \in 1..MaxSockets, m \in VerseMsgs : OnVerseIdentified(s, m)
  \/ \E s \in 1..MaxSockets, d \in DiffMsgs : OnDiffUpdate(s, d)
  \/ \E s \in 1..MaxSockets, a \in BOOLEAN : OnMistakeEvent(s, a)

\* C1: while the session is listening, handling a verse_identified,
\* diff_update or mistake_event message leaves the session listening and the
\* same channel open: ws.current is the same socket and it is still open.
C1_EventsKeepChannel ==
  [][(InboundEvent /\ isListening)
       => (isListening' /\ ws' = ws /\ IsOpen(sockets', ws'))]_vars

\* The engine is idle-equivalent: the recorder is stopped, the stream's tracks
\* are stopped, the verse context is cleared and nothing is highlighted.
IdleEquivalent ==
  /\ mediaRecorder # 0 => captures[mediaRecorder].recorder = "inactive"
  /\ audioStream # 0 => captures[audioStream].tracks = "stopped"
  /\ currentSura = "" /\ currentAya = <<>> /\ currentVerseWords = <<>>
  /\ highlightedWords = <<>>

\* C2: when a socket's close or error event is handled while the session is
\* listening, the engine is idle-equivalent afterwards.
C2_CloseLeavesIdle ==
  [][((\E s \in 1..MaxSockets : WsOnClose(s) \/ WsOnError(s)) /\ isListening)
       => IdleEquivalent']_vars

\* Nothing of a session is left: no open socket, no flush interval and no
\* voice-activity loop running, no stream with live tracks.
NoResidual ==
  /\ \A s \in 1..Len(sockets) : sockets[s].readyState # "open"
  /\ \A c \in 1..Len(captures) :
       ~captures[c].interval /\ ~captures[c].raf /\ captures[c].tracks = "stopped"

\* C3: after stopListening ran while the recorder was recording (the one
\* capture of the run, no other grant pending) there is no open channel, no
\* running flush interval or voice-activity loop and no live microphone
\* stream.
C3_StopLeavesNothing ==
  [][(StopListening /\ Len(captures) = 1 /\ pendingGrants = <<>>
        /\ mediaRecorder = 1 /\ captures[1].recorder = "recording")
       => NoResidual']_vars

\* The indices the claim expects highlighted for a diff.
ExpectedHighlights(d) ==
  { d.diff[k].index : k \in { j \in 1..Len(d.diff) :
                                d.diff[j].type \in {"deletion", "replacement_ref"} } }

\* C4: the highlighted indices are exactly the indices of the deletion and
\* replacement_ref entries of the latest diff_update since the latest
\* verse_identified, none when there was no such diff_update; and a
\* diff_update step leaves the verse context as it was.
C4_HighlightsFollowLatestDiff ==
  /\ [](Range(highlightedWords) =
          IF latestDiff.seen THEN ExpectedHighlights(latestDiff) ELSE {})
  /\ [][(\E s \in 1..MaxSockets, d \in DiffMsgs : OnDiffUpdate(s, d))
          => UNCHANGED <<currentSura, currentAya, currentVerseWords>>]_vars

\* C4's case: a verse was identified, then a diff with discrepancies arrived.
C4_Witness ==
  /\ lastOp.op = "diff_update"
  /\ currentVerseWords = <<<<"b">>, <<"a">>>>
  /\ highlightedWords = <<1>>

\* The record of queue with the given id (the ids of a queue are distinct).
RecordOf(queue, id) == queue[CHOOSE k \in 1..Len(queue) : queue[k].id = id]

\* A record but for its verified and synced fields.
Identity(m) == [id |-> m.id, sura |-> m.sura, aya |-> m.aya, timestamp |-> m.timestamp]

\* C5: the ids of the queue are pairwise distinct and the queue is ordered
\* newest-first; and a step changes the queue only by prepending one record
\* with a fresh id, verified pending and synced false, or by changing verified
\* and synced fields of records in place.
C5_QueueUniqueNewestFirst ==
  /\ [](/\ \A j, k \in 1..Len(mistakeQueue) :
             j < k => /\ mistakeQueue[j].id # mistakeQueue[k].id
                      /\ mistakeQueue[j].timestamp > mistakeQueue[k].timestamp)
  /\ [][mistakeQueue' # mistakeQueue =>
          \/ /\ Len(mistakeQueue') = Len(mistakeQueue) + 1
             /\ Tail(mistakeQueue') = mistakeQueue
             /\ Head(mistakeQueue').id \notin QueueIds(mistakeQueue)
             /\ Head(mistakeQueue').verified = "pending"
             /\ Head(mistakeQueue').synced = FALSE
          \/ /\ Len(mistakeQueue') = Len(mistakeQueue)
             /\ \A k \in 1..Len(mistakeQueue) :
                  Identity(mistakeQueue'[k]) = Identity(mistakeQueue[k])]_vars

\* C5's case: two records, the older one verified and synced since.
C5_Witness ==
  /\ Len(mistakeQueue) = 2
  /\ mistakeQueue[2].verified = "incorrect"
  /\ mistakeQueue[2].synced
  /\ ~mistakeQueue[1].synced

\* C6: a mistake_event (the step that prepends a record) triggers what the
\* current feedback mode asks for: nothing in highlight mode, one beep and no
\* playback in beep mode, and in spoken mode no beep and one playback exactly
\* when the message carries correction audio.
C6_FeedbackFollowsCurrentMode ==
  [][\A s \in 1..MaxSockets, hasAudio \in BOOLEAN :
       OnMistakeEvent(s, hasAudio) =>
         CASE feedbackMode = "highlight" ->
                beeps' = beeps /\ clipsRequested' = clipsRequested
           [] feedbackMode = "beep" ->
                beeps' = beeps + 1 /\ clipsRequested' = clipsRequested
           [] feedbackMode = "spoken" ->
                /\ beeps' = beeps
                /\ clipsRequested' = clipsRequested + (IF hasAudio THEN 1 ELSE 0)]_vars

\* C6's case: the mode was changed while a session listened, and a
\* mistake_event with audio then started a playback.
C6_Witness ==
  /\ lastOp.op = "mistake_event"
  /\ lastOp.socket > 1
  /\ feedbackMode = "spoken"
  /\ clipsRequested = 1
  /\ beeps = 0

\* C7: a record's synced flag turns true only in the step that handles the
\* successful response of a request whose payload holds the record's id.
C7_SyncedOnlyBySubmittedSuccess ==
  [][\A id \in QueueIds(mistakeQueue) :
       (~RecordOf(mistakeQueue, id).synced
          /\ id \in QueueIds(mistakeQueue') /\ RecordOf(mistakeQueue', id).synced)
       => \E p \in BagToSet(syncRequests) :
            /\ id \in QueueIds(p)
            /\ syncRequests' = syncRequests (-) SetToBag({p})
            /\ lastOp'.op = "syncOk"]_vars

\* C7's case: a response marked its record synced and left unsynced a record
\* that was added while the request was in flight (no request is in flight
\* now, and that record was never delivered).
C7_Witness ==
  /\ lastOp.op = "syncOk"
  /\ Len(mistakeQueue) = 2
  /\ mistakeQueue[2].synced
  /\ ~mistakeQueue[1].synced
  /\ server[mistakeQueue[1].id] = "none"
  /\ syncRequests = EmptyBag

\* C8: a record with synced true was delivered by a successful request with
\* the verification status it has now.
C8_SyncedMeansDelivered ==
  \A k \in 1..Len(mistakeQueue) :
    mistakeQueue[k].synced => server[mistakeQueue[k].id] = mistakeQueue[k].verified

\* C9: for every id and status, handleMistakeVerification's update sets
\* verified to the status and synced to false on the record with that id and
\* leaves every other record, the length and the order as they were (so a
\* queue without the id is unchanged); and the handler's step makes exactly
\* that update.
C9_VerificationFrame ==
  /\ [](\A id \in MistakeIds \cup {0}, st \in Statuses :
          LET q == MarkVerified(mistakeQueue, id, st)
          IN /\ Len(q) = Len(mistakeQueue)
             /\ \A k \in 1..Len(mistakeQueue) :
                  IF mistakeQueue[k].id = id
                  THEN /\ Identity(q[k]) = Identity(mistakeQueue[k])
                       /\ q[k].verified = st
                       /\ q[k].synced = FALSE
                  ELSE q[k] = mistakeQueue[k])
  /\ [][\A id \in MistakeIds, st \in Statuses :
          HandleMistakeVerification(id, st) =>
            /\ Len(mistakeQueue') = Len(mistakeQueue)
            /\ \A k \in 1..Len(mistakeQueue) :
                 IF mistakeQueue[k].id = id
                 THEN /\ Identity(mistakeQueue'[k]) = Identity(mistakeQueue[k])
                      /\ mistakeQueue'[k].verified = st
                      /\ mistakeQueue'[k].synced = FALSE
                 ELSE mistakeQueue'[k] = mistakeQueue[k]]_vars

\* C9's case: a record that was synced has been verified and is unsynced
\* again, next to another record.
C9_Witness ==
  /\ lastOp.op = "verify"
  /\ lastOp.wasSynced
  /\ Len(mistakeQueue) = 2
  /\ RecordOf(mistakeQueue, lastOp.id).verified = "incorrect"
  /\ ~RecordOf(mistakeQueue, lastOp.id).synced

\* C10: the step that handles a failed sync request changes no record, and the
\* records the request carried are unsynced after it.
C10_FailureChangesNothing ==
  [][\A p \in BagToSet(syncRequests) :
       SyncFailed(p) =>
         /\ mistakeQueue' = mistakeQueue
         /\ \A id \in QueueIds(p) : ~RecordOf(mistakeQueue', id).synced]_vars

\* C11: with the sync timers firing and requests eventually succeeding, a
\* record whose synced flag is false is eventually a record whose current
\* verification status the server holds.
C11_UnsyncedEventuallyDelivered ==
  \A i \in MistakeIds :
    (i \in QueueIds(mistakeQueue) /\ ~RecordOf(mistakeQueue, i).synced)
      ~> (i \in QueueIds(mistakeQueue)
            /\ server[i] = RecordOf(mistakeQueue, i).verified)

\* The ids of the records of queue whose synced flag is false.
UnsyncedIds(queue) == { queue[k].id : k \in { j \in 1..Len(queue) : ~queue[j].synced } }

\* C12: a step adds a sync request only when some record is unsynced, and
\* then it adds exactly one, whose payload holds exactly the unsynced records,
\* each once and without its synced field, and no record changes; and every
\* sync attempt made with an unsynced record adds a request.
C12_SyncSubmitsExactlyUnsynced ==
  [][/\ BagCardinality(syncRequests') > BagCardinality(syncRequests) =>
          /\ UnsyncedIds(mistakeQueue) # {}
          /\ mistakeQueue' = mistakeQueue
          /\ \E p \in BagToSet(syncRequests') :
               /\ syncRequests' = syncRequests (+) SetToBag({p})
               /\ QueueIds(p) = UnsyncedIds(mistakeQueue)
               /\ Len(p) = Cardinality(UnsyncedIds(mistakeQueue))
               /\ \A j \in 1..Len(p) :
                    LET m == RecordOf(mistakeQueue, p[j].id)
                    IN /\ DOMAIN p[j] = DOMAIN m \ {"synced"}
                       /\ \A f \in DOMAIN p[j] : p[j][f] = m[f]
     /\ SyncMistakes =>
          BagCardinality(syncRequests') = BagCardinality(syncRequests) + 1]_vars

\* C12's case: of two records the older is synced, and the sync attempt that
\* ran last issued the one request in flight, with the newer record only.
C12_Witness ==
  /\ lastOp.op = "sync"
  /\ Len(mistakeQueue) = 2
  /\ mistakeQueue[2].synced /\ ~mistakeQueue[1].synced
  /\ BagCardinality(syncRequests) = 1
  /\ \A p \in BagToSet(syncRequests) : QueueIds(p) = {mistakeQueue[1].id}

\* C13: at most one correction playback source is playing.
C13_AtMostOneSourcePlaying ==
  Cardinality({ i \in 1..Len(sources) : sources[i] = "playing" }) <= 1

\* C14: while the session listens, a voice-activity frame of its capture that
\* observes activity above the threshold while a correction clip is playing
\* stops the clip and clears the playback state.
C14_VoiceActivityStopsClip ==
  [][\A c \in 1..MaxCaptures :
       (/\ CheckSilence(c, TRUE)
        /\ isListening /\ c = mediaRecorder /\ captures[c].tracks = "live"
        /\ isSpokenCorrectionPlaying /\ spokenCorrectionSource # 0
        /\ sources[spokenCorrectionSource] = "playing")
       => /\ sources'[spokenCorrectionSource] = "stopped"
          /\ spokenCorrectionSource' = 0
          /\ ~isSpokenCorrectionPlaying']_vars

\* The chunks of the binary frames among the frames sent on a socket.
AudioFramesOf(sock) ==
  { sock.out[k].chunks : k \in { j \in 1..Len(sock.out) : sock.out[j].type = "audio" } }

\* C15: when the send of a flush tick that found the channel open and chunks
\* buffered runs with the channel open, it sends one binary frame holding the
\* chunks that were buffered at the tick, none of which an earlier frame on the
\* channel held, and the buffer is empty afterwards; and a chunk that was
\* captured just before, with the channel open, is not removed from the buffer
\* without being in the frame.
C15_FlushSendsBufferedChunks ==
  [][\A f \in 1..Len(pendingFlush) :
       (FlushResume(f) /\ ~pendingFlush[f].onstop /\ IsOpen(sockets, ws)) =>
         LET blob == pendingFlush[f].blob
         IN /\ sockets'[ws].out =
                 Append(sockets[ws].out, [type |-> "audio", chunks |-> blob])
            /\ \A frame \in AudioFramesOf(sockets[ws]) :
                 Range(frame) \cap Range(blob) = {}
            /\ audioChunks' = <<>>
            /\ (lastOp.op = "chunk" /\ nextChunk \in Range(audioChunks))
                 => nextChunk \in Range(blob)]_vars

\* C16: stopListening, run while the channel is open, the recorder recording
\* and chunks buffered, leaves the channel open for the final frame that the
\* recorder's stop event is to send.
C16_StopKeepsChannelForFinalFrame ==
  [][(/\ StopListening
      /\ IsOpen(sockets, ws) /\ audioChunks # <<>>
      /\ mediaRecorder # 0 /\ captures[mediaRecorder].recorder = "recording")
       => IsOpen(sockets', ws)]_vars

\* C17: the step that handles a denied microphone request leaves the session
\* not listening (so that startListening can run again), opens no socket,
\* starts no recorder, flush interval or voice-activity loop and reports the
\* failure; and the session becomes listening only in the step that handles a
\* granted request.
C17_DeniedStartsNothing ==
  [][/\ \A g \in 1..Len(pendingGrants) :
          GetUserMediaRejected(g) =>
            /\ ~isListening'
            /\ ws' = 0 /\ Len(sockets') = Len(sockets)
            /\ \A s \in 1..Len(sockets) :
                 sockets'[s].readyState \notin {"connecting", "open"}
            /\ captures' = captures /\ mediaRecorder' = mediaRecorder
            /\ animationFrameId' = animationFrameId
            /\ statusMessage' =
                 "Microphone access denied or error. Please allow microphone permissions."
     /\ (~isListening /\ isListening') =>
          /\ Len(captures') = Len(captures) + 1
          /\ Len(pendingGrants') = Len(pendingGrants) - 1
          /\ lastOp'.op = "granted"]_vars

\* C17's case: the one microphone request of the run was denied, and nothing
\* was started.
C17_Witness ==
  /\ lastOp.op = "denied"
  /\ ~isListening
  /\ pendingGrants = <<>> /\ captures = <<>> /\ sockets = <<>>
  /\ statusMessage = "Microphone access denied or error. Please allow microphone permissions."

\* C18: the Cancel button pressed while the referenced recorder records stops
\* the recorder and the tracks of its stream; and no upload request is issued
\* and no TrainingUploadRecord stored for a recording that Cancel ended.
C18_CancelDoesNotUpload ==
  /\ [](\A k \in 1..Len(sampleUploads) : ~samples[sampleUploads[k]].cancelled)
  /\ [](\A k \in 1..Len(trainingUploads) : ~samples[trainingUploads[k]].cancelled)
  /\ [][(/\ CancelCorrectionModal /\ isRecordingCorrectSample
          /\ correctSampleRecorder # 0
          /\ samples[correctSampleRecorder].recorder = "recording")
         => /\ samples'[correctSampleRecorder].recorder = "inactive"
            /\ samples'[correctSampleRecorder].tracks = "stopped"]_vars

\* C19: once the correct-sample workflow was stopped or cancelled (the last
\* step was the Cancel button or the completion of an upload) and it is not
\* recording and has nothing outstanding (no microphone request, no stop
\* event, no upload), the tracks of every stream it acquired are stopped.
C19_SampleStreamsReleased ==
  (/\ lastOp.op \in {"cancelModal", "uploadOk", "uploadFailed"}
   /\ ~isRecordingCorrectSample
   /\ samplePending = 0
   /\ sampleUploads = <<>>
   /\ \A i \in 1..Len(samples) : ~samples[i].stopEvent)
  => \A i \in 1..Len(samples) : samples[i].tracks = "stopped"

\* C20: no stream of the capture pipeline and stream of the correct-sample
\* workflow have live tracks at the same time.
C20_NeverBothHoldMicrophone ==
  ~(/\ \E c \in 1..Len(captures) : captures[c].tracks = "live"
    /\ \E i \in 1..Len(samples) : samples[i].tracks = "live")

\* C21: the step that handles a failed upload reports the failure and leaves
\* the upload-record log as it was and, for an initial-recitation upload, the
\* selected file selected; the log changes only by one record prepended in
\* the step that handles a successful response; and the selection is cleared
\* only in that step of an initial-recitation upload (or by the user picking
\* a file that is not audio).
C21_FailedUploadChangesNothing ==
  [][/\ \A u \in 1..Len(initialUploads) :
          InitialUploadFailed(u) =>
            /\ statusMessage' = "Failed to upload initial training audio."
            /\ trainingUploads' = trainingUploads
            /\ recordedAudioFile' = recordedAudioFile
     /\ \A u \in 1..Len(sampleUploads) :
          UploadCorrectSampleFailed(u) =>
            /\ statusMessage' = "Failed to upload correct sample."
            /\ trainingUploads' = trainingUploads
     /\ trainingUploads' # trainingUploads =>
          /\ Len(trainingUploads') = Len(trainingUploads) + 1
          /\ Tail(trainingUploads') = trainingUploads
          /\ lastOp'.op \in {"initialUploadOk", "uploadOk"}
     /\ (recordedAudioFile # NoFile /\ recordedAudioFile' = NoFile) =>
          lastOp'.op \in {"initialUploadOk", "fileSelected"}]_vars

\* C21's case: after one upload succeeded, the upload of a newly selected file
\* failed; the file is still selected and the log holds the one record.
C21_Witness ==
  /\ lastOp.op = "initialUploadFailed"
  /\ recordedAudioFile.name = "ruku.mp3"
  /\ trainingUploads = <<0>>
  /\ initialUploads = <<>>

\* C22: nothing is sent on a socket that is still connecting; an open socket
\* has sent a config message first; the step that handles a socket's open
\* event sends on that socket, as its first message, the config message with
\* the feedback mode current in that step; so no audio frame precedes the
\* config message on any socket.
C22_ConfigFirst ==
  /\ [](\A s \in 1..Len(sockets) :
          /\ sockets[s].readyState = "connecting" => sockets[s].out = <<>>
          /\ sockets[s].readyState = "open" => sockets[s].out # <<>>
          /\ sockets[s].out # <<>> => sockets[s].out[1].type = "config")
  /\ [][\A s \in 1..MaxSockets :
          WsOnOpen(s) =>
            sockets'[s].out = <<[type |-> "config", feedbackMode |-> feedbackMode]>>]_vars

\* C22's case: a socket opened after the feedback mode was changed sent its
\* config message with the new mode and then an audio frame.
C22_Witness ==
  \E s \in 2..Len(sockets) :
    /\ Len(sockets[s].out) = 2
    /\ sockets[s].out[1] = [type |-> "config", feedbackMode |-> "beep"]
    /\ sockets[s].out[2].type = "audio"

\* C23: handleFeedbackModeChange, run while the session listens and the
\* channel is open, sends the config message with the new mode on that
\* channel, and afterwards the session listens on the same channel, still
\* open.
C23_ModeChangeKeepsChannel ==
  [][\A m \in Modes :
       (HandleFeedbackModeChange(m) /\ isListening /\ IsOpen(sockets, ws)) =>
         /\ lastOp'.sent
         /\ isListening'
         /\ ws' = ws
         /\ IsOpen(sockets', ws')]_vars

\* C24: the step that handles a failed decode reports the error and leaves
\* the session's listening state as it was and the playback state cleared:
\* the playing flag false, no source referenced and no source playing.
C24_DecodeFailureClearsPlayback ==
  [][DecodeRejected =>
       /\ statusMessage' = "Error playing correction audio."
       /\ isListening' = isListening
       /\ ~isSpokenCorrectionPlaying'
       /\ spokenCorrectionSource' = 0
       /\ \A i \in 1..Len(sources') : sources'[i] # "playing"]_vars

\* C25: the step that handles a malformed inbound message leaves the verse
\* context, the highlighted indices, the mistake queue and the lifecycle state
\* (listening, and the channel) as they were.
C25_MalformedMessageIgnored ==
  [][\A s \in 1..MaxSockets, k \in MalformedKinds :
       OnMalformedMessage(s, k) =>
         /\ UNCHANGED <<currentSura, currentAya, currentVerseWords,
                        highlightedWords, mistakeQueue, isListening>>
         /\ ws' = ws /\ sockets' = sockets]_vars

\* C26: whenever no load is pending the store parses to the in-memory queue,
\* records and order; the render after a restart restores the queue that was
\* in the store when the page was closed; and the restart step writes no
\* queue to the store that omits a record the store held.
C26_StoreMirrorsQueue ==
  /\ [](pendingLoad = <<>> => Parse(storedMistakes) = mistakeQueue)
  /\ [][(LoadCommitted /\ lastOp.op = "restart") => mistakeQueue' = lastOp.stored]_vars
  /\ [][Restart => QueueIds(Parse(storedMistakes)) \subseteq QueueIds(Parse(storedMistakes'))]_vars

\* C27: at most one sync request is in flight.
C27_OneSyncInFlight == BagCardinality(syncRequests) <= 1

\* C28: right after stopListening no correction clip is playing, and a decode
\* that completes then starts none.
C28_NoClipAfterStop ==
  /\ [](lastOp.op = "stopListening" =>
          \A i \in 1..Len(sources) : sources[i] # "playing")
  /\ [][(lastOp.op = "stopListening" /\ DecodeResolved) =>
          \A i \in 1..Len(sources') : sources'[i] # "playing"]_vars

\* C29: the playing flag is true exactly when a source is referenced, and the
\* referenced source is the one source that is playing; and the ended event
\* of a source that is not the referenced one leaves the flag and the
\* reference of a referenced, playing source as they were.
C29_PlaybackBookkeeping ==
  /\ [](/\ isSpokenCorrectionPlaying <=> spokenCorrectionSource # 0
         /\ \A i \in 1..Len(sources) :
              sources[i] = "playing" <=> i = spokenCorrectionSource)
  /\ [][\A i \in 1..Len(sources) :
          (/\ SourceOnEnded(i)
           /\ spokenCorrectionSource \notin {0, i}
           /\ sources[spokenCorrectionSource] = "playing")
          => UNCHANGED <<isSpokenCorrectionPlaying, spokenCorrectionSource>>]_vars

\* C30: at most one stream of the capture pipeline has live tracks, at most
\* one recorder records, at most one flush interval and one voice-activity
\* loop run; and a stream with live tracks is the current one.
C30_OneCaptureAtATime ==
  /\ Cardinality({ c \in 1..Len(captures) : captures[c].tracks = "live" }) <= 1
  /\ Cardinality({ c \in 1..Len(captures) : captures[c].recorder = "recording" }) <= 1
  /\ Cardinality({ c \in 1..Len(captures) : captures[c].interval }) <= 1
  /\ Cardinality({ c \in 1..Len(captures) : captures[c].raf }) <= 1
  /\ \A c \in 1..Len(captures) : captures[c].tracks = "live" => c = audioStream

====
